---- MODULE Spec2Model ----
(***************************************************************************)
(* State-machine models of the client components of the repository whose   *)
(* behaviour is specified:                                                  *)
(*   - actionCreators/performance (fetchTeamKeyTransactions,               *)
(*     toggleKeyTransaction) and the team key transactions Provider        *)
(*   - CreateSavedSearchModal, Pagination, EventsChart / Chart,            *)
(*     GlobalSelectionHeader and ShareIssue                                 *)
(* Every component keeps its state in one record variable; there is one    *)
(* specification per component.                                            *)
(***************************************************************************)
EXTENDS Integers, Sequences, FiniteSets, TLC

VARIABLES
    state,      \* UnwrappedProvider.state (teamKeyTransactions is a reference into heap)
    heap,       \* the Map objects the Provider can reach, by reference
    fetches,    \* the fetchData calls: position, locals and what each did
    toggles,    \* the handleToggleKeyTransaction calls
    last,       \* the step taken last: its operation, its input and what it did
    modal,      \* CreateSavedSearchModal: props, state and the submits
    pagination, \* Pagination: props
    eventsChart,\* EventsChart: props
    chart,      \* Chart (events chart): props and state
    header,     \* GlobalSelectionHeader: props and state
    share       \* ShareIssue: props and hasConfirmModal

(***************************************************************************)
(* Bounds of the model.                                                    *)
(***************************************************************************)
MaxCalls == 2       \* fetchData and handleToggleKeyTransaction calls in one behaviour
MaxPages == 2       \* page requests one fetchTeamKeyTransactions call may issue

(***************************************************************************)
(* Values.                                                                 *)
(***************************************************************************)
Undefined == "<undefined>"      \* JavaScript undefined (a missing or null detail)
Null == "<null>"
JsTrue == "<true>"             \* the booleans of optional props
JsFalse == "<false>"
Teams == {"t1", "t2"}           \* the team ids
FetchedTeams == {"t1"}          \* the teams the server has key transactions of
PropsTeams == <<[id |-> "t1", isMember |-> TRUE], [id |-> "t2", isMember |-> FALSE]>>
Projects == {"p1"}
Transactions == {"a"}
Cursors == {"c1"}
Details == {Undefined, "", "denied"}            \* err.responseJSON?.detail
\* JavaScript truthiness of a string, boolean, null or undefined
Truthy(x) == x \notin {"", Undefined, Null, JsFalse}

DefaultFetchError == "Error fetching team key transactions"
DefaultToggleError == "Unable to update key transaction"
LoadingMessage == "Saving changes..."

(***************************************************************************)
(* Maps.  A TeamKeyTransactions value is a function from the teams it has  *)
(* to functions from the projects they have to sets of transaction names.  *)
(***************************************************************************)
EmptyMap == [x \in {} |-> {}]

MapSet(m, k, v) == [x \in (DOMAIN m) \cup {k} |-> IF x = k THEN v ELSE m[x]]

\* keyed.reduce(...): project_id -> Set of transaction
RECURSIVE KeyTransactionsForTeam(_, _)
KeyTransactionsForTeam(keyed, kts) ==
    IF keyed = <<>> THEN kts
    ELSE LET k == Head(keyed)
             has == IF k.project_id \in DOMAIN kts THEN kts ELSE MapSet(kts, k.project_id, {})
         IN KeyTransactionsForTeam(Tail(keyed),
                MapSet(has, k.project_id, has[k.project_id] \cup {k.transaction}))

\* data.forEach(...): teamKeyTransactions.set(team, keyTransactionsForTeam)
RECURSIVE ApplyPage(_, _)
ApplyPage(acc, data) ==
    IF data = <<>> THEN acc
    ELSE ApplyPage(MapSet(acc, Head(data).team,
                          KeyTransactionsForTeam(Head(data).keyed, EmptyMap)),
                   Tail(data))

(***************************************************************************)
(* The responses the server can give.                                      *)
(***************************************************************************)
KeyedLists == {<<>>} \cup
    {<<[project_id |-> p, transaction |-> t]>> : p \in Projects, t \in Transactions}
Entries == [team : FetchedTeams, keyed : KeyedLists]
PageData == {<<>>} \cup {<<e>> : e \in Entries}
\* The Link header of a response as parseLinkHeader returns it: no header, or a
\* header with or without a 'next' link, whose results is true, false or null
NoLink == [header |-> FALSE, next |-> FALSE, results |-> "null", cursor |-> Undefined]
PageLinks == {NoLink} \cup
    {[header |-> TRUE, next |-> FALSE, results |-> "null", cursor |-> Undefined]} \cup
    [header : {TRUE}, next : {TRUE}, results : {"true", "false", "null"}, cursor : Cursors]

\* hasMore = paginationObject?.next?.results ?? false (false without a header)
HasMore(link) == link.header /\ link.next /\ link.results = "true"

\* cursor = paginationObject.next?.cursor (left as it was without a header)
NextCursor(cursor, link) ==
    IF ~link.header THEN cursor
    ELSE IF link.next THEN link.cursor ELSE Undefined

\* err.responseJSON?.detail ?? t('Error fetching team key transactions')
FetchErrorMessageDefaultOnly(detail) == DefaultFetchError
FetchErrorMessage(detail) ==
    IF detail = Undefined THEN DefaultFetchError ELSE detail

(***************************************************************************)
(* What a step did, as its caller and the user can observe it.             *)
(***************************************************************************)
Event(op, arg) == [op |-> op, arg |-> arg]

\* op and id: the step and the call it belongs to; arg: the input of the step;
\* pre: the locals of the call before the step; events: the indicator calls and
\* requests it made, in order; outcome: how the action creator's promise stands
\* after it; thrown / returned: its value
Step(op, id, arg, pre, events, outcome, thrown, returned) ==
    [op |-> op, id |-> id, arg |-> arg, pre |-> pre, events |-> events,
     outcome |-> outcome, thrown |-> thrown, returned |-> returned]

\* a step of a component that settles no promise
Did(op, arg, pre, events) ==
    [op |-> op, id |-> 0, arg |-> arg, pre |-> pre, events |-> events,
     outcome |-> "none", thrown |-> Undefined, returned |-> EmptyMap]

vars == <<state, heap, fetches, toggles, last, modal, pagination, eventsChart, chart,
          header, share>>
providerVars == <<state, heap, fetches, toggles>>
NotProvider == <<modal, pagination, eventsChart, chart, header, share>>
NotModal == <<providerVars, pagination, eventsChart, chart, header, share>>
NotPagination == <<providerVars, modal, eventsChart, chart, header, share>>
NotEventsChart == <<providerVars, modal, pagination, chart, header, share>>
NotChart == <<providerVars, modal, pagination, eventsChart, header, share>>
NotHeader == <<providerVars, modal, pagination, eventsChart, chart, share>>
NotShare == <<providerVars, modal, pagination, eventsChart, chart, header>>

(***************************************************************************)
(* The team key transactions Provider.                                     *)
(***************************************************************************)
CallIds == 1..MaxCalls      \* the calls, numbered in the order they start
FetchIds == CallIds
ToggleIds == CallIds
Refs == 0..MaxCalls         \* 0: the Map of the initial state; i: the Map fetch i stores

\* call i is the next to start
NextCall(i) ==
    /\ fetches[i].pc = "unused" /\ toggles[i].pc = "unused"
    /\ \A j \in CallIds : j < i => (fetches[j].pc # "unused" \/ toggles[j].pc # "unused")

\* no later-started fetchData call has finished yet
NotOvertaken == [by |-> 0, error |-> Null]

\* the locals of a fetchData call: page is the number of the page request in flight.
\* overlaps and overtaken are history, not variables of the program: whether an
\* earlier call was in flight when this one started, and the last later-started
\* call that finished while this one was in flight (by, 0 for none; its Map is
\* heap[by]) with the error it stored
IdleFetch == [pc |-> "unused", cursor |-> Undefined, acc |-> EmptyMap, page |-> 0,
              overlaps |-> FALSE, overtaken |-> NotOvertaken]
DoneFetch == [pc |-> "done", cursor |-> Undefined, acc |-> EmptyMap, page |-> 0,
              overlaps |-> FALSE, overtaken |-> NotOvertaken]

\* What a rejected key-transactions request carries: response.responseJSON (or
\* none), its detail and its non_field_errors (an array of strings, or not an array)
NonFieldErrors ==
    {[array |-> FALSE, items |-> <<>>], [array |-> FALSE, items |-> <<"limit">>]} \cup
    {[array |-> TRUE, items |-> s] :
        s \in {<<>>, <<"">>, <<"limit">>, <<"", "limit">>, <<"limit", "other">>}}
NoJSON == [hasJSON |-> FALSE, detail |-> Undefined,
           nfe |-> [array |-> FALSE, items |-> <<>>]]
ToggleResponses == {NoJSON} \cup
    [hasJSON : {TRUE}, detail : Details, nfe : NonFieldErrors]

Selections == [action : {"key", "unkey"}, type : {"my teams", "id"}, teamId : Teams,
               project : Projects, transactionName : Transactions]

\* the locals of a handleToggleKeyTransaction call: ref is the Map it read from
\* state.  fetched and before are history, not variables of the program: the
\* fetchData call that finished last while the request of this call was in flight
\* (0 for none), and the contents of the state's Map when the call was made
IdleToggle == [pc |-> "unused", ref |-> 0, fetched |-> 0, before |-> EmptyMap]
DoneToggle == [pc |-> "done", ref |-> 0, fetched |-> 0, before |-> EmptyMap]

ProviderInit ==
    /\ state = [keyFetchID |-> Null, isLoading |-> TRUE, error |-> Null,
                teamKeyTransactions |-> 0]
    /\ heap = [r \in Refs |-> EmptyMap]
    /\ fetches = [i \in FetchIds |-> IdleFetch]
    /\ toggles = [j \in ToggleIds |-> IdleToggle]

\* setState of fetchData's last statement
FetchDataSetStateKeepLoading(i, error, map) ==
    /\ state' = [state EXCEPT !.keyFetchID = Undefined, !.error = error,
                              !.teamKeyTransactions = i]
    /\ heap' = [heap EXCEPT ![i] = map]
FetchDataSetState(i, error, map) ==
    /\ state' = [isLoading |-> FALSE, keyFetchID |-> Undefined, error |-> error,
                 teamKeyTransactions |-> i]
    /\ heap' = [heap EXCEPT ![i] = map]

\* fetchData call i finishes and stores error: the calls started before it that are
\* still in flight are overtaken by it
FetchDataDone(i, error) ==
    [k \in FetchIds |->
        IF k = i THEN DoneFetch
        ELSE IF k < i /\ fetches[k].pc = "awaiting" /\ fetches[k].overtaken.by < i
        THEN [fetches[k] EXCEPT !.overtaken = [by |-> i, error |-> error]]
        ELSE fetches[k]]

\* fetchData call i finishes: the handleToggleKeyTransaction calls in flight
TogglesAfterFetch(i) ==
    [j \in ToggleIds |->
        IF toggles[j].pc = "awaiting" THEN [toggles[j] EXCEPT !.fetched = i]
        ELSE toggles[j]]

\* api.requestPromise(url, {method: 'GET', query: {cursor, team}})
PageRequest(cursor) == Event("GET", cursor)

\* componentDidMount / componentDidUpdate: fetchData() up to its first await, which
\* is the first page request of fetchTeamKeyTransactions
FetchData(i) ==
    /\ NextCall(i)
    /\ state' = [state EXCEPT !.isLoading = TRUE, !.keyFetchID = i]
    /\ fetches' = [fetches EXCEPT ![i] =
          [IdleFetch EXCEPT !.pc = "awaiting", !.page = 1,
                            !.overlaps = \E k \in FetchIds : fetches[k].pc = "awaiting"]]
    /\ last' = Step("FetchData", i, Undefined, fetches[i], <<PageRequest(Undefined)>>, "pending",
                    Undefined, EmptyMap)
    /\ UNCHANGED <<heap, toggles>>
    /\ UNCHANGED NotProvider

\* a page request resolves: the rest of the try block, then either the next
\* request or the return and fetchData's continuation
PageSuccess(i, data, link) ==
    /\ fetches[i].pc = "awaiting"
    /\ HasMore(link) => fetches[i].page < MaxPages
    /\ LET acc == ApplyPage(fetches[i].acc, data)
           cursor == NextCursor(fetches[i].cursor, link)
       IN IF HasMore(link)
          THEN /\ fetches' = [fetches EXCEPT ![i] =
                     [pc |-> "awaiting", cursor |-> cursor, acc |-> acc,
                      page |-> fetches[i].page + 1,
                      overlaps |-> fetches[i].overlaps,
                      overtaken |-> fetches[i].overtaken]]
               /\ last' = Step("PageSuccess", i, Undefined, fetches[i], <<PageRequest(cursor)>>,
                               "pending", Undefined, EmptyMap)
               /\ UNCHANGED <<state, heap, toggles>>
          ELSE /\ fetches' = FetchDataDone(i, Null)
               /\ toggles' = TogglesAfterFetch(i)
               /\ last' = Step("PageSuccess", i, Undefined, fetches[i], <<>>, "returned",
                               Undefined, acc)
               /\ FetchDataSetState(i, Null, acc)
    /\ UNCHANGED NotProvider

\* the catch block of fetchTeamKeyTransactions: what it shows, and whether it
\* throws (TRUE) or goes round the loop again
PageCatchRetry(detail) ==
    [events |-> <<Event("error", FetchErrorMessage(detail))>>, throws |-> FALSE]
PageCatch(detail) ==
    [events |-> <<Event("error", FetchErrorMessage(detail))>>, throws |-> TRUE]

\* a page request rejects: the catch block of fetchTeamKeyTransactions, then the
\* catch block and the continuation of fetchData
PageFailure(i, detail) ==
    /\ fetches[i].pc = "awaiting"
    /\ LET c == PageCatch(detail)
       IN IF c.throws
          THEN /\ fetches' = FetchDataDone(i, FetchErrorMessage(detail))
               /\ last' = Step("PageFailure", i, detail, fetches[i], c.events, "thrown", detail,
                               EmptyMap)
               /\ toggles' = TogglesAfterFetch(i)
               /\ FetchDataSetState(i, FetchErrorMessage(detail), EmptyMap)
          ELSE /\ fetches[i].page < MaxPages
               /\ fetches' = [fetches EXCEPT ![i].page = @ + 1]
               /\ last' = Step("PageFailure", i, detail, fetches[i],
                               c.events \o <<PageRequest(fetches[i].cursor)>>,
                               "pending", Undefined, EmptyMap)
               /\ UNCHANGED <<state, heap, toggles>>
    /\ UNCHANGED NotProvider

(***************************************************************************)
(* getCounts and getKeyedTeams, of the contents of the state's Map.        *)
(***************************************************************************)
\* count += transactionNames.size, over keyTransactions.values()
RECURSIVE CountTransactions(_, _)
CountTransactions(keyTransactions, projects) ==
    IF projects = {} THEN 0
    ELSE LET project == CHOOSE p \in projects : TRUE
         IN Cardinality(keyTransactions[project]) +
            CountTransactions(keyTransactions, projects \ {project})

\* counts: team -> the number of its key transactions
getCounts(teamKeyTransactions) ==
    [team \in DOMAIN teamKeyTransactions |->
        CountTransactions(teamKeyTransactions[team], DOMAIN teamKeyTransactions[team])]

\* the teams with keyTransactions.get(project)?.has(transactionName)
getKeyedTeams(teamKeyTransactions, project, transactionName) ==
    {team \in DOMAIN teamKeyTransactions :
        /\ project \in DOMAIN teamKeyTransactions[team]
        /\ transactionName \in teamKeyTransactions[team][project]}

(***************************************************************************)
(* toggleKeyTransaction and handleToggleKeyTransaction.                    *)
(***************************************************************************)
isMyTeamSelection(selection) == selection.type = "my teams"

\* teams.filter(({isMember}) => isMember).map(({id}) => id)
RECURSIVE MemberIds(_)
MemberIds(teams) ==
    IF teams = <<>> THEN <<>>
    ELSE IF Head(teams).isMember THEN <<Head(teams).id>> \o MemberIds(Tail(teams))
    ELSE MemberIds(Tail(teams))

toggleKeyTransactionForMyTeams == MemberIds(PropsTeams)
toggleKeyTransactionForTeam(selection) == <<selection.teamId>>

TeamIds(selection) ==
    IF isMyTeamSelection(selection) THEN toggleKeyTransactionForMyTeams
    ELSE toggleKeyTransactionForTeam(selection)

\* the for loop of handleToggleKeyTransaction over teamIds, on the Map itself
RECURSIVE ToggleInPlace(_, _, _, _, _)
ToggleInPlace(m, teamIds, project, transactionName, isKeyTransaction) ==
    IF teamIds = <<>> THEN m
    ELSE LET teamId == Head(teamIds)
             m1 == IF teamId \in DOMAIN m THEN m ELSE MapSet(m, teamId, EmptyMap)
             team == IF project \in DOMAIN m1[teamId] THEN m1[teamId]
                     ELSE MapSet(m1[teamId], project, {})
             names == IF isKeyTransaction THEN team[project] \ {transactionName}
                      ELSE team[project] \cup {transactionName}
         IN ToggleInPlace(MapSet(m1, teamId, MapSet(team, project, names)),
                          Tail(teamIds), project, transactionName, isKeyTransaction)

\* method: isKeyTransaction ? 'DELETE' : 'POST'
Method(isKeyTransaction) == IF isKeyTransaction THEN "DELETE" ELSE "POST"

\* toggleKeyTransaction up to its return: the loading message, then the request
ToggleCallsRequestFirst(isKeyTransaction) ==
    <<Event(Method(isKeyTransaction), Undefined), Event("loading", LoadingMessage)>>
ToggleCalls(isKeyTransaction) ==
    <<Event("loading", LoadingMessage), Event(Method(isKeyTransaction), Undefined)>>

\* promise.then(clearIndicators)
ToggleThenNothing == <<>>
ToggleThen == <<Event("clear", Undefined)>>

\* the promise.catch handler of toggleKeyTransaction
ToggleErrorMessageFirstEntry(response) ==
    IF response.hasJSON /\ response.nfe.array /\ Len(response.nfe.items) # 0
    THEN response.nfe.items[1]
    ELSE DefaultToggleError
ToggleErrorMessage(response) ==
    IF /\ response.hasJSON
       /\ response.nfe.array
       /\ Len(response.nfe.items) # 0
       /\ Truthy(response.nfe.items[1])
    THEN response.nfe.items[1]
    ELSE DefaultToggleError

ToggleCatch(response) == <<Event("error", ToggleErrorMessage(response))>>

\* return promise: the promise of the request itself
ReturnedPromiseOfCatch(settled) == "fulfilled"
ReturnedPromise(settled) == settled

HandleToggleKeyTransaction(j, selection) ==
    /\ NextCall(j)
    /\ LET isKeyTransaction == selection.action = "unkey"
           ref == state.teamKeyTransactions
       IN /\ heap' = [heap EXCEPT ![ref] =
                        ToggleInPlace(heap[ref], TeamIds(selection), selection.project,
                                      selection.transactionName, isKeyTransaction)]
          /\ toggles' = [toggles EXCEPT ![j] =
                          [pc |-> "awaiting", ref |-> ref, fetched |-> 0,
                           before |-> heap[ref]]]
          /\ last' = Step("HandleToggleKeyTransaction", j, selection.action, IdleFetch,
                          ToggleCalls(isKeyTransaction), "pending", Undefined, EmptyMap)
    /\ UNCHANGED <<state, fetches>>
    /\ UNCHANGED NotProvider

\* the request resolves: promise.then(clearIndicators), then the continuation of
\* handleToggleKeyTransaction
ToggleSuccess(j) ==
    /\ toggles[j].pc = "awaiting"
    /\ toggles' = [toggles EXCEPT ![j] = DoneToggle]
    /\ state' = [state EXCEPT !.teamKeyTransactions = toggles[j].ref]
    /\ last' = Step("ToggleSuccess", j, NoJSON, toggles[j], ToggleThen,
                    ReturnedPromise("fulfilled"), Undefined, EmptyMap)
    /\ UNCHANGED <<heap, fetches>>
    /\ UNCHANGED NotProvider

\* err.responseJSON?.detail ?? null
ToggleStateError(response) ==
    IF response.hasJSON /\ response.detail # Undefined THEN response.detail ELSE Null

\* the request rejects: the promise.catch handler, then the catch block of
\* handleToggleKeyTransaction
ToggleFailure(j, response) ==
    /\ toggles[j].pc = "awaiting"
    /\ toggles' = [toggles EXCEPT ![j] = DoneToggle]
    /\ state' = [state EXCEPT !.error = ToggleStateError(response)]
    /\ last' = Step("ToggleFailure", j, response, toggles[j], ToggleCatch(response),
                    ReturnedPromise("rejected"), Undefined, EmptyMap)
    /\ UNCHANGED <<heap, fetches>>
    /\ UNCHANGED NotProvider

NoStep == Step("none", 0, Undefined, IdleFetch, <<>>, "none", Undefined, EmptyMap)

ProviderNext ==
    \/ \E i \in FetchIds : FetchData(i)
    \/ \E i \in FetchIds, data \in PageData, link \in PageLinks : PageSuccess(i, data, link)
    \/ \E i \in FetchIds, detail \in Details : PageFailure(i, detail)
    \/ \E j \in ToggleIds, selection \in Selections : HandleToggleKeyTransaction(j, selection)
    \/ \E j \in ToggleIds : ToggleSuccess(j)
    \/ \E j \in ToggleIds, response \in ToggleResponses : ToggleFailure(j, response)

(***************************************************************************)
(* CreateSavedSearchModal.                                                 *)
(***************************************************************************)
MaxSubmits == 2     \* handleSubmit calls in one behaviour

\* IssueSortOptions
IssueSortOptions_DATE == "date"
IssueSortOptions_NEW == "new"
IssueSortOptions_PRIORITY == "priority"
IssueSortOptions_FREQ == "freq"
IssueSortOptions_USER == "user"
IssueSortOptions_TREND == "trend"

DEFAULT_SORT_OPTIONS == <<IssueSortOptions_DATE, IssueSortOptions_NEW, IssueSortOptions_FREQ,
      IssueSortOptions_PRIORITY, IssueSortOptions_USER>>
TrendSortFeature == "issue-list-trend-sort"
DefaultSaveError == "Unable to save your changes."

\* props.organization: undefined, or with a features list
Organizations == {[defined |-> FALSE, features |-> {}]} \cup
    {[defined |-> TRUE, features |-> f] :
        f \in {{}, {TrendSortFeature}, {"discover-query"}}}
\* data.sort / props.sort
SortInputs ==
    {IssueSortOptions_DATE, IssueSortOptions_NEW, IssueSortOptions_PRIORITY,
     IssueSortOptions_FREQ, IssueSortOptions_USER, IssueSortOptions_TREND,
     "inbox", "", Undefined}
\* what a rejected createSavedSearch carries: err.responseJSON and its detail
SaveErrors == {[hasJSON |-> FALSE, detail |-> Undefined]} \cup
    [hasJSON : {TRUE}, detail : {Undefined, "", "Name taken"}]

SubmitIds == 1..MaxSubmits

\* options = [...DEFAULT_SORT_OPTIONS], plus TREND with the 'issue-list-trend-sort' feature
sortOptionsAlwaysTrend(organization) == Append(DEFAULT_SORT_OPTIONS, IssueSortOptions_TREND)
sortOptions(organization) ==
    IF organization.defined /\ TrendSortFeature \in organization.features
    THEN Append(DEFAULT_SORT_OPTIONS, IssueSortOptions_TREND)
    ELSE DEFAULT_SORT_OPTIONS

\* Array.prototype.find(option => option === sort)
RECURSIVE Find(_, _)
Find(options, sort) ==
    IF options = <<>> THEN Undefined
    ELSE IF Head(options) = sort THEN Head(options)
    ELSE Find(Tail(options), sort)

validateSortOption(organization, sort) ==
    IF Truthy(Find(sortOptions(organization), sort)) THEN sort ELSE IssueSortOptions_DATE

\* error = err.responseJSON && err.responseJSON.detail ? detail : t('Unable to save your changes.')
SaveErrorMessage(err) ==
    IF err.hasJSON /\ Truthy(err.detail) THEN err.detail ELSE DefaultSaveError

ModalInit ==
    \E organization \in Organizations, sort \in SortInputs :
        modal = [organization |-> organization, sort |-> sort,
                 isSaving |-> FALSE, error |-> Null, open |-> TRUE,
                 submits |-> [k \in SubmitIds |-> "unused"]]
ModalIdle ==
    modal = [organization |-> [defined |-> FALSE, features |-> {}], sort |-> Undefined,
             isSaving |-> FALSE, error |-> Null, open |-> TRUE,
             submits |-> [k \in SubmitIds |-> "unused"]]

\* render(): initialData.sort
ModalRender ==
    /\ modal.open
    /\ last' = Did("Render", modal.sort, modal,
                   <<Event("initialData.sort", validateSortOption(modal.organization, modal.sort))>>)
    /\ UNCHANGED modal
    /\ UNCHANGED NotModal

\* handleSubmit up to the createSavedSearch request (an open modal takes submits)
HandleSubmit(k, sort) ==
    /\ modal.open
    /\ modal.submits[k] = "unused"
    /\ \A j \in SubmitIds : j < k => modal.submits[j] # "unused"
    /\ modal' = [modal EXCEPT !.isSaving = TRUE, !.submits[k] = "awaiting"]
    /\ last' = [Did("HandleSubmit", sort, modal,
                    <<Event("preventDefault", Undefined),
                      Event("addLoadingMessage", "Saving Changes"),
                      Event("createSavedSearch", validateSortOption(modal.organization, sort))>>)
                EXCEPT !.id = k, !.outcome = "pending"]
    /\ UNCHANGED NotModal

\* the .then handler
SubmitThenState(m, k) ==
    [m EXCEPT !.open = FALSE, !.error = Null, !.isSaving = FALSE, !.submits[k] = "done"]

CreateSuccess(k) ==
    /\ modal.submits[k] = "awaiting"
    /\ modal' = SubmitThenState(modal, k)
    /\ last' = [Did("CreateSuccess", Undefined, modal,
                    <<Event("closeModal", Undefined), Event("clearIndicators", Undefined),
                      Event("onSubmitSuccess", Undefined)>>)
                EXCEPT !.id = k, !.outcome = "fulfilled"]
    /\ UNCHANGED NotModal

\* the .catch handler
SubmitCatchState(m, k, err) ==
    [m EXCEPT !.error = SaveErrorMessage(err), !.isSaving = FALSE, !.submits[k] = "done"]

CreateFailure(k, err) ==
    /\ modal.submits[k] = "awaiting"
    /\ modal' = SubmitCatchState(modal, k, err)
    /\ last' = [Did("CreateFailure", err, modal,
                    <<Event("clearIndicators", Undefined),
                      Event("onSubmitError", SaveErrorMessage(err))>>)
                EXCEPT !.id = k, !.outcome = "rejected"]
    /\ UNCHANGED NotModal

ModalNext ==
    \/ ModalRender
    \/ \E k \in SubmitIds, sort \in SortInputs : HandleSubmit(k, sort)
    \/ \E k \in SubmitIds : CreateSuccess(k)
    \/ \E k \in SubmitIds, err \in SaveErrors : CreateFailure(k, err)

(***************************************************************************)
(* Pagination.                                                             *)
(***************************************************************************)
\* a link of parseLinkHeader(pageLinks): absent, or with results and a cursor
NoPageLink == [present |-> FALSE, results |-> "null", cursor |-> Undefined]
PageLinkOptions == {NoPageLink} \cup
    [present : {TRUE}, results : {"true", "false", "null"}, cursor : {"0:0:1", "0:100:0"}]
\* location.query
Queries == {EmptyMap, [query |-> "is:unresolved"],
            [cursor |-> "0:50:0", query |-> "is:unresolved"]}

PaginationProps ==
    [to : {Undefined, "", "/issues/"},
     location : [pathname : {"/organizations/acme/releases/"}, query : Queries],
     pageLinks : BOOLEAN,           \* pageLinks is a non-empty string
     previous : PageLinkOptions, next : PageLinkOptions,
     onCursor : {"default", "custom"},
     disabled : BOOLEAN]

\* without pageLinks nothing is rendered and the links are not parsed
PaginationInit ==
    /\ pagination \in PaginationProps
    /\ ~pagination.pageLinks =>
          pagination.previous = NoPageLink /\ pagination.next = NoPageLink
PaginationIdle ==
    pagination = [to |-> Undefined,
                  location |-> [pathname |-> "/organizations/acme/releases/",
                                query |-> EmptyMap],
                  pageLinks |-> FALSE, previous |-> NoPageLink, next |-> NoPageLink,
                  onCursor |-> "default", disabled |-> FALSE]

\* const path = to ?? location.pathname
PaginationPathnameOnly(props) == props.location.pathname
PaginationPath(props) ==
    IF props.to # Undefined THEN props.to ELSE props.location.pathname

\* links.previous?.cursor
LinkCursor(link) == IF link.present THEN link.cursor ELSE Undefined

\* disabled || links.previous?.results === false
LinkDisabled(props, link) == props.disabled \/ (link.present /\ link.results = "false")

\* defaultOnCursor: browserHistory.push({pathname: path, query: {...query, cursor}})
defaultOnCursor(cursor, path, query, delta) ==
    <<Event("browserHistory.push",
            [pathname |-> path, query |-> MapSet(query, "cursor", cursor)])>>

\* onCursor?.(cursor, path, query, delta), onCursor = defaultOnCursor by default
OnCursor(props, cursor, path, query, delta) ==
    IF props.onCursor = "default" THEN defaultOnCursor(cursor, path, query, delta)
    ELSE <<Event("onCursor",
                 [cursor |-> cursor, path |-> path, query |-> query, delta |-> delta])>>

ClickPrevious ==
    /\ pagination.pageLinks
    /\ ~LinkDisabled(pagination, pagination.previous)
    /\ last' = Did("ClickPrevious", Undefined, pagination,
                   OnCursor(pagination, LinkCursor(pagination.previous),
                            PaginationPath(pagination), pagination.location.query, -1))
    /\ UNCHANGED pagination
    /\ UNCHANGED NotPagination

ClickNext ==
    /\ pagination.pageLinks
    /\ ~LinkDisabled(pagination, pagination.next)
    /\ last' = Did("ClickNext", Undefined, pagination,
                   OnCursor(pagination, LinkCursor(pagination.next),
                            PaginationPath(pagination), pagination.location.query, 1))
    /\ UNCHANGED pagination
    /\ UNCHANGED NotPagination

PaginationNext ==
    \/ ClickPrevious
    \/ ClickNext

(***************************************************************************)
(* EventsChart.                                                            *)
(***************************************************************************)
WorldMapChart == "WorldMapChart"

EventsChartProps ==
    [disablePrevious : {Undefined, JsFalse, JsTrue},
     start : {Undefined, Null, "", "2021-08-01T00:00:00"},
     end : {Undefined, Null, "", "2021-08-02T00:00:00"},
     chartComponent : {Undefined, WorldMapChart, "BarChart"}]

EventsChartInit == eventsChart \in EventsChartProps
EventsChartIdle ==
    eventsChart = [disablePrevious |-> Undefined, start |-> Undefined, end |-> Undefined,
                   chartComponent |-> Undefined]

\* const includePrevious = !disablePrevious && !start && !end
IncludePreviousIgnoringEnd(props) ==
    ~Truthy(props.disablePrevious) /\ ~Truthy(props.start)
IncludePrevious(props) ==
    ~Truthy(props.disablePrevious) /\ ~Truthy(props.start) /\ ~Truthy(props.end)

\* the request component the ChartZoom child renders
EventsChartRequest(props) ==
    IF props.chartComponent = WorldMapChart
    THEN <<Event("EventsGeoRequest", [start |-> props.start, end |-> props.end])>>
    ELSE <<Event("EventsRequest", [start |-> props.start, end |-> props.end,
                                   includePrevious |-> IncludePrevious(props)])>>

EventsChartRender ==
    /\ last' = Did("EventsChart.render", Undefined, eventsChart,
                   EventsChartRequest(eventsChart))
    /\ UNCHANGED eventsChart
    /\ UNCHANGED NotEventsChart

EventsChartNext == EventsChartRender

(***************************************************************************)
(* Chart (the events chart): the legend selection.                         *)
(***************************************************************************)
SeriesNames == {"Releases", "Other", "count()", "p50()"}
\* legendChange.selected: series name -> boolean
LegendSelections == UNION {[names -> BOOLEAN] : names \in SUBSET SeriesNames}
\* props.disableableSeries: not given, or a list of series names
DisableableOptions ==
    {[given |-> FALSE, names |-> <<>>]} \cup
    {[given |-> TRUE, names |-> s] : s \in {<<>>, <<"p50()">>}}

ChartInit ==
    \E d \in DisableableOptions :
        chart = [disableableSeries |-> d, seriesSelection |-> EmptyMap,
                 forceUpdate |-> FALSE]
ChartIdle ==
    chart = [disableableSeries |-> [given |-> FALSE, names |-> <<>>],
             seriesSelection |-> EmptyMap, forceUpdate |-> FALSE]

Includes(list, x) == \E n \in 1..Len(list) : list[n] = x

\* ['Releases', 'Other'].includes(key) || disableableSeries.includes(key)
DisableableAny(disableableSeries, key) == TRUE
Disableable(disableableSeries, key) ==
    \/ Includes(<<"Releases", "Other">>, key)
    \/ Includes(IF disableableSeries.given THEN disableableSeries.names ELSE <<>>, key)

\* Object.keys(selected).reduce(...)
SeriesSelection(disableableSeries, selected) ==
    [key \in DOMAIN selected |->
        IF Disableable(disableableSeries, key) THEN selected[key] ELSE TRUE]

\* handleLegendSelectChanged with the callback of its setState, which resets
\* forceUpdate once the update is done
HandleLegendSelectChanged(selected) ==
    /\ chart' = [chart EXCEPT
                    !.seriesSelection = SeriesSelection(chart.disableableSeries, selected),
                    !.forceUpdate = FALSE]
    /\ last' = Did("handleLegendSelectChanged", selected, chart, <<>>)
    /\ UNCHANGED NotChart

ChartNext == \E selected \in LegendSelections : HandleLegendSelectChanged(selected)

(***************************************************************************)
(* GlobalSelectionHeader: the pending project and environment selection.   *)
(***************************************************************************)
\* number[] | null, string[] | null
NullList == [null |-> TRUE, items |-> <<>>]
List(items) == [null |-> FALSE, items |-> items]
ProjectSelections == {NullList} \cup {List(s) : s \in {<<>>, <<1>>, <<1, 2>>}}
EnvironmentSelections ==
    {NullList} \cup {List(s) : s \in {<<>>, <<"prod">>, <<"prod", "dev">>}}

\* props: resetParamsOnChange, and whether the on* callbacks are given
HeaderInit ==
    \E reset \in {<<>>, <<"cursor">>}, callbacks \in BOOLEAN :
        header = [resetParamsOnChange |-> reset, callbacks |-> callbacks,
                  projects |-> NullList, environments |-> NullList]
HeaderIdle ==
    header = [resetParamsOnChange |-> <<>>, callbacks |-> FALSE,
              projects |-> NullList, environments |-> NullList]

\* getUpdateOptions
getUpdateOptions(h) == [save |-> TRUE, resetParams |-> h.resetParamsOnChange]

\* callIfFunction(this.props.onX, arg)
callIfFunction(h, name, arg) ==
    IF h.callbacks THEN <<Event(name, arg)>> ELSE <<>>

handleChangeProjects(projects) ==
    /\ header' = [header EXCEPT !.projects = projects]
    /\ last' = Did("handleChangeProjects", projects, header,
                   callIfFunction(header, "onChangeProjects", projects))
    /\ UNCHANGED NotHeader

handleChangeEnvironments(environments) ==
    /\ header' = [header EXCEPT !.environments = environments]
    /\ last' = Did("handleChangeEnvironments", environments, header,
                   callIfFunction(header, "onChangeEnvironments", environments))
    /\ UNCHANGED NotHeader

handleUpdateEnvironmments ==
    /\ header' = [header EXCEPT !.environments = NullList]
    /\ last' = Did("handleUpdateEnvironmments", Undefined, header,
                   <<Event("updateEnvironments",
                           [environments |-> header.environments,
                            options |-> getUpdateOptions(header)])>>
                   \o callIfFunction(header, "onUpdateEnvironments", header.environments))
    /\ UNCHANGED NotHeader

\* updateProjects(projects || [], router, {...getUpdateOptions(), environments: []})
UpdateProjectsCall(h) ==
    Event("updateProjects",
          [projects |-> IF h.projects.null THEN <<>> ELSE h.projects.items,
           options |-> [save |-> getUpdateOptions(h).save,
                        resetParams |-> getUpdateOptions(h).resetParams,
                        environments |-> <<>>]])

\* this.setState({projects: null, environments: null})
UpdateProjectsStateKeepEnvironments(h) == [h EXCEPT !.projects = NullList]
UpdateProjectsState(h) == [h EXCEPT !.projects = NullList, !.environments = NullList]

handleUpdateProjects ==
    /\ header' = UpdateProjectsState(header)
    /\ last' = Did("handleUpdateProjects", Undefined, header,
                   <<UpdateProjectsCall(header)>>
                   \o callIfFunction(header, "onUpdateProjects", header.projects))
    /\ UNCHANGED NotHeader

HeaderNext ==
    \/ \E projects \in ProjectSelections : handleChangeProjects(projects)
    \/ \E environments \in EnvironmentSelections : handleChangeEnvironments(environments)
    \/ handleUpdateEnvironmments
    \/ handleUpdateProjects

(***************************************************************************)
(* ShareIssue.                                                             *)
(***************************************************************************)
ShareProps ==
    [loading : BOOLEAN, isShared : {Undefined, JsFalse, JsTrue},
     shareUrl : {Null, "https://sentry.io/share/issue/abc/"}, disabled : BOOLEAN]

ShareInit ==
    \E props \in ShareProps : share = [props |-> props, hasConfirmModal |-> FALSE]
ShareIdle ==
    share = [props |-> [loading |-> FALSE, isShared |-> Undefined, shareUrl |-> Null,
                        disabled |-> FALSE],
             hasConfirmModal |-> FALSE]

\* the parent re-renders ShareIssue as its share request starts and ends
ShareSetProps(props) ==
    /\ props.disabled = share.props.disabled
    /\ props # share.props
    /\ share' = [share EXCEPT !.props = props]
    /\ last' = Did("props", Undefined, share, <<>>)
    /\ UNCHANGED NotShare

\* if (!loading && !isShared) onToggle()
HandleOpenAlways(props) == <<Event("onToggle", Undefined)>>
HandleOpen(props) ==
    IF ~props.loading /\ ~Truthy(props.isShared)
    THEN <<Event("onToggle", Undefined)>>
    ELSE <<>>

handleOpen ==
    /\ last' = Did("handleOpen", Undefined, share, HandleOpen(share.props))
    /\ UNCHANGED share
    /\ UNCHANGED NotShare

handleToggleShare ==
    /\ last' = Did("handleToggleShare", Undefined, share,
                   <<Event("preventDefault", Undefined), Event("onToggle", Undefined)>>)
    /\ UNCHANGED share
    /\ UNCHANGED NotShare

\* !loading && isShared && shareUrl: the ShareUrlContainer is rendered
ShareUrlShown(props) ==
    ~props.loading /\ Truthy(props.isShared) /\ Truthy(props.shareUrl)

handleConfirmCancel ==
    /\ ShareUrlShown(share.props)
    /\ share' = [share EXCEPT !.hasConfirmModal = FALSE]
    /\ last' = Did("handleConfirmCancel", Undefined, share, <<>>)
    /\ UNCHANGED NotShare

handleConfirmReshare ==
    /\ ShareUrlShown(share.props)
    /\ share' = [share EXCEPT !.hasConfirmModal = TRUE]
    /\ last' = Did("handleConfirmReshare", Undefined, share, <<>>)
    /\ UNCHANGED NotShare

ShareNext ==
    \/ \E props \in ShareProps : ShareSetProps(props)
    \/ handleOpen
    \/ handleToggleShare
    \/ handleConfirmCancel
    \/ handleConfirmReshare

(***************************************************************************)
(* The specifications, one per component; the other components stay as    *)
(* they are constructed.                                                   *)
(***************************************************************************)
Init ==
    /\ ProviderInit /\ last = NoStep
    /\ ModalIdle /\ PaginationIdle /\ EventsChartIdle /\ ChartIdle /\ HeaderIdle
    /\ ShareIdle

Next == ProviderNext

Spec == Init /\ [][Next]_vars

InitModal ==
    /\ ProviderInit /\ last = NoStep
    /\ ModalInit /\ PaginationIdle /\ EventsChartIdle /\ ChartIdle /\ HeaderIdle
    /\ ShareIdle

SpecModal == InitModal /\ [][ModalNext]_vars

InitPagination ==
    /\ ProviderInit /\ last = NoStep
    /\ ModalIdle /\ PaginationInit /\ EventsChartIdle /\ ChartIdle /\ HeaderIdle
    /\ ShareIdle

SpecPagination == InitPagination /\ [][PaginationNext]_vars

InitEventsChart ==
    /\ ProviderInit /\ last = NoStep
    /\ ModalIdle /\ PaginationIdle /\ EventsChartInit /\ ChartIdle /\ HeaderIdle
    /\ ShareIdle

SpecEventsChart == InitEventsChart /\ [][EventsChartNext]_vars

InitChart ==
    /\ ProviderInit /\ last = NoStep
    /\ ModalIdle /\ PaginationIdle /\ EventsChartIdle /\ ChartInit /\ HeaderIdle
    /\ ShareIdle

SpecChart == InitChart /\ [][ChartNext]_vars

InitHeader ==
    /\ ProviderInit /\ last = NoStep
    /\ ModalIdle /\ PaginationIdle /\ EventsChartIdle /\ ChartIdle /\ HeaderInit
    /\ ShareIdle

SpecHeader == InitHeader /\ [][HeaderNext]_vars

InitShare ==
    /\ ProviderInit /\ last = NoStep
    /\ ModalIdle /\ PaginationIdle /\ EventsChartIdle /\ ChartIdle /\ HeaderIdle
    /\ ShareInit

SpecShare == InitShare /\ [][ShareNext]_vars

(***************************************************************************)
(* Claims about the performance action creators and the Provider.          *)
(***************************************************************************)
FetchFailed == last.op = "PageFailure"
FetchFinished == last.op \in {"PageSuccess", "PageFailure"} /\ fetches[last.id].pc = "done"

\* C1: fetchTeamKeyTransactions does not retry.  The step in which a page request
\* fails shows exactly one error message, the response's detail or the default
\* when there is none, issues no request, leaves no request of the call in
\* flight, and ends the call by throwing the error it caught, returning no map.
C1_FetchFailureShowsAndRethrows ==
    FetchFailed =>
        /\ last.events = <<Event("error", IF last.arg = Undefined
                                          THEN "Error fetching team key transactions"
                                          ELSE last.arg)>>
        /\ last.outcome = "thrown"
        /\ last.thrown = last.arg
        /\ last.returned = EmptyMap
        /\ fetches[last.id].pc = "done"
        /\ fetches[last.id].page = 0

\* the second page request of a call fails after the first page gave some teams
C1_Witness ==
    /\ FetchFailed
    /\ last.pre.page = 2
    /\ last.pre.acc # EmptyMap
    /\ last.arg = "denied"

\* C2: when a fetchData call finishes, isLoading is false; after a failed request
\* error is the response's detail or the default message and teamKeyTransactions
\* is an empty Map; after a success error is null and teamKeyTransactions is the
\* Map that was fetched.
C2_FetchDataFinalState ==
    FetchFinished =>
        /\ state.isLoading = FALSE
        /\ last.op = "PageFailure" =>
              /\ state.error = (IF last.arg = Undefined
                                THEN "Error fetching team key transactions"
                                ELSE last.arg)
              /\ heap[state.teamKeyTransactions] = EmptyMap
        /\ last.op = "PageSuccess" =>
              /\ state.error = Null
              /\ heap[state.teamKeyTransactions] = last.returned

\* a fetch fails on its second page, while the state held an error and a Map with
\* teams: the partial result is not stored
C2_Witness ==
    /\ FetchFinished
    /\ last.op = "PageFailure"
    /\ last.pre.acc # EmptyMap
    /\ last.arg = Undefined
    /\ state.error = DefaultFetchError

\* the message the claim gives for a rejected key-transactions request
ExpectedToggleMessage(response) ==
    IF response.hasJSON /\ response.nfe.array /\ response.nfe.items # <<>>
       /\ response.nfe.items[1] # ""
    THEN response.nfe.items[1]
    ELSE "Unable to update key transaction"

\* C3: toggleKeyTransaction shows the loading message and then issues the request;
\* when the request succeeds the indicators are cleared and no error message is
\* shown; when it fails the one message shown is the first non_field_errors entry
\* (if that is a non-empty array with a truthy first entry) or 'Unable to update
\* key transaction'; the returned promise settles as the request did.
C3_ToggleIndicators ==
    /\ last.op = "HandleToggleKeyTransaction" =>
          /\ Len(last.events) = 2
          /\ last.events[1].op = "loading"
          /\ last.events[2].op = (IF last.arg = "unkey" THEN "DELETE" ELSE "POST")
          /\ last.outcome = "pending"
    /\ last.op = "ToggleSuccess" =>
          /\ last.events = <<Event("clear", Undefined)>>
          /\ last.outcome = "fulfilled"
    /\ last.op = "ToggleFailure" =>
          /\ last.events = <<Event("error", ExpectedToggleMessage(last.arg))>>
          /\ last.outcome = "rejected"

\* the request fails with non_field_errors whose first entry is empty
C3_Witness ==
    /\ last.op = "ToggleFailure"
    /\ last.arg.hasJSON
    /\ last.arg.nfe = [array |-> TRUE, items |-> <<"", "limit">>]


\* the last fetchData call in flight has just finished, and no
\* handleToggleKeyTransaction call was made
FetchesSettled ==
    /\ FetchFinished
    /\ \A i \in FetchIds : fetches[i].pc # "awaiting"
    /\ \A j \in ToggleIds : toggles[j].pc = "unused"

\* what the call that finished last stored itself
OwnResult ==
    [error |-> IF last.op = "PageFailure"
               THEN (IF last.arg = Undefined THEN "Error fetching team key transactions"
                     ELSE last.arg)
               ELSE Null,
     teamKeyTransactions |-> IF last.op = "PageFailure" THEN EmptyMap ELSE last.returned]

\* the later-started fetch finishes last, and the state is what it stored
LaterFinishesLast ==
    (FetchesSettled /\ last.pre.overtaken.by = 0 /\ last.pre.overlaps) =>
        /\ state.error = OwnResult.error
        /\ heap[state.teamKeyTransactions] = OwnResult.teamKeyTransactions

\* C11: when a fetch is started while an earlier one is in flight, then once both
\* have settled teamKeyTransactions and error are those of the later-started
\* fetch: its own when the later-started fetch finishes last, and those of the
\* fetch that overtook it when the earlier-started one finishes last.
C11_LaterFetchWins ==
    /\ LaterFinishesLast
    /\ (FetchesSettled /\ last.pre.overtaken.by # 0) =>
          /\ state.error = last.pre.overtaken.error
          /\ heap[state.teamKeyTransactions] = heap[last.pre.overtaken.by]

\* C12: if a fetch completes while a toggle request is in flight, then after the
\* toggle request succeeds the Provider's teamKeyTransactions are those the
\* fetch stored: the state holds the Map of that fetch, or one with its contents.
C12_FetchSurvivesToggle ==
    (last.op = "ToggleSuccess" /\ last.pre.fetched # 0) =>
        heap[state.teamKeyTransactions] = heap[last.pre.fetched]

\* the toggle request of the only handleToggleKeyTransaction call made so far has
\* just failed, and no fetch has finished since the call was made
ToggleFailedAlone ==
    /\ last.op = "ToggleFailure"
    /\ last.pre.fetched = 0
    /\ \A k \in ToggleIds : k # last.id => toggles[k].pc = "unused"

\* C13: if the toggle request fails, getKeyedTeams and counts return the same
\* results as before handleToggleKeyTransaction was called, and error is the
\* response's detail, or null when it has none.
C13_ToggleFailureRestores ==
    ToggleFailedAlone =>
        /\ getCounts(heap[state.teamKeyTransactions]) = getCounts(last.pre.before)
        /\ \A project \in Projects, transactionName \in Transactions :
              getKeyedTeams(heap[state.teamKeyTransactions], project, transactionName)
                = getKeyedTeams(last.pre.before, project, transactionName)
        /\ state.error = (IF last.arg.hasJSON /\ last.arg.detail # Undefined
                          THEN last.arg.detail ELSE Null)

\* the part of C13 about error
ToggleFailureSetsError ==
    last.op = "ToggleFailure" =>
        state.error = (IF last.arg.hasJSON /\ last.arg.detail # Undefined
                       THEN last.arg.detail ELSE Null)
(***************************************************************************)
(* Claims about CreateSavedSearchModal.                                    *)
(***************************************************************************)
Called(name) == \E n \in 1..Len(last.events) : last.events[n].op = name

\* C4: for every submit, isSaving is true until its create request settles and
\* false afterwards; on success the modal is closed, error is null and only
\* onSubmitSuccess is called; on failure the modal is not closed, error is the
\* response's detail or 'Unable to save your changes.' and only onSubmitError is
\* called; the indicators are cleared in both cases.
C4_SubmitLifecycle ==
    /\ \A k \in SubmitIds : modal.submits[k] = "awaiting" => modal.isSaving
    /\ last.op = "CreateSuccess" =>
          /\ ~modal.isSaving
          /\ modal.error = Null
          /\ Called("closeModal") /\ ~modal.open
          /\ Called("onSubmitSuccess") /\ ~Called("onSubmitError")
          /\ Called("clearIndicators")
    /\ last.op = "CreateFailure" =>
          /\ ~modal.isSaving
          /\ modal.error = (IF last.arg.hasJSON /\ last.arg.detail \notin {Undefined, ""}
                            THEN last.arg.detail
                            ELSE "Unable to save your changes.")
          /\ ~Called("closeModal")
          /\ Called("onSubmitError") /\ ~Called("onSubmitSuccess")
          /\ Called("clearIndicators")

\* the sort options the claim names for an organization
ExpectedSortOptions(organization) ==
    {"date", "new", "freq", "priority", "user"} \cup
    (IF organization.defined /\ "issue-list-trend-sort" \in organization.features
     THEN {"trend"} ELSE {})

\* C9: validateSortOption returns a member of sortOptions(): the given sort when
\* it is one of them and the date sort otherwise; the trend sort is accepted only
\* with the 'issue-list-trend-sort' feature.  Checked where it is used: the sort
\* handleSubmit sends and the initial sort render shows.
C9_ValidSortOption ==
    last.op \in {"HandleSubmit", "Render"} =>
        LET given == last.arg
            result == last.events[Len(last.events)].arg
            options == ExpectedSortOptions(modal.organization)
        IN /\ result \in options
           /\ given \in options => result = given
           /\ given \notin options => result = "date"
           /\ result = "trend" =>
                 modal.organization.defined
                 /\ "issue-list-trend-sort" \in modal.organization.features

\* a submit with the trend sort in an organization without the feature
C9_Witness ==
    /\ last.op = "HandleSubmit"
    /\ last.arg = "trend"
    /\ modal.organization.defined
    /\ "issue-list-trend-sort" \notin modal.organization.features
    /\ last.events[3] = Event("createSavedSearch", "date")

(***************************************************************************)
(* Claims about Pagination.                                                *)
(***************************************************************************)
\* what the claim says a click calls, for the link and the delta of the button
ExpectedCursorCall(link, delta) ==
    LET cursor == IF link.present THEN link.cursor ELSE Undefined
        path == IF pagination.to # Undefined THEN pagination.to
                ELSE pagination.location.pathname
        query == pagination.location.query
    IN IF pagination.onCursor = "custom"
       THEN <<Event("onCursor", [cursor |-> cursor, path |-> path, query |-> query,
                                 delta |-> delta])>>
       ELSE <<Event("browserHistory.push",
                    [pathname |-> path,
                     query |-> [k \in DOMAIN query \cup {"cursor"} |->
                                   IF k = "cursor" THEN cursor ELSE query[k]]])>>

RequestsPrevious ==
    \E n \in 1..Len(last.events) :
        /\ last.events[n].op = "EventsRequest"
        /\ last.events[n].arg.includePrevious

\* disablePrevious is not set, and neither start nor end is given
RelativeAndNotDisabled ==
    /\ eventsChart.disablePrevious \in {Undefined, JsFalse}
    /\ eventsChart.start \in {Undefined, Null, ""}
    /\ eventsChart.end \in {Undefined, Null, ""}

\* C6 as stated: EventsChart requests previous-period data exactly when
\* disablePrevious is not set and neither start nor end is given.
C6_Original ==
    last.op = "EventsChart.render" => (RequestsPrevious <=> RelativeAndNotDisabled)

\* C6 as amended: that holds when the chart component is not the WorldMapChart;
\* with the WorldMapChart, EventsChart renders an EventsGeoRequest and asks for no
\* previous-period data.
C6_IncludePrevious ==
    last.op = "EventsChart.render" =>
        (RequestsPrevious <=>
            (RelativeAndNotDisabled /\ eventsChart.chartComponent # "WorldMapChart"))

\* a chart of a relative period with an empty end and disablePrevious false
C6_Witness ==
    /\ last.op = "EventsChart.render"
    /\ eventsChart.disablePrevious = JsFalse
    /\ eventsChart.start = Null /\ eventsChart.end = ""
    /\ eventsChart.chartComponent = "BarChart"
    /\ RequestsPrevious

\* the series the claim lets the user deselect
MayBeDeselected ==
    {"Releases", "Other"} \cup
    (IF chart.disableableSeries.given
     THEN {chart.disableableSeries.names[n] : n \in 1..Len(chart.disableableSeries.names)}
     ELSE {})

\* C7: after any sequence of legend-selection changes, a series is recorded as
\* deselected only if its name is 'Releases', 'Other' or in disableableSeries;
\* every other series named in the last legend event is recorded as selected.
C7_OnlyDisableableDeselected ==
    /\ \A key \in DOMAIN chart.seriesSelection :
          ~chart.seriesSelection[key] => key \in MayBeDeselected
    /\ last.op = "handleLegendSelectChanged" =>
          \A key \in (DOMAIN last.arg) \ MayBeDeselected :
              key \in DOMAIN chart.seriesSelection /\ chart.seriesSelection[key]

\* a second legend event deselects 'count()', 'p50()' and 'Releases' with only
\* 'p50()' in disableableSeries
C7_Witness ==
    /\ last.op = "handleLegendSelectChanged"
    /\ last.pre.seriesSelection # EmptyMap
    /\ chart.disableableSeries.names = <<"p50()">>
    /\ DOMAIN last.arg = {"Releases", "count()", "p50()"}
    /\ \A key \in DOMAIN last.arg : ~last.arg[key]
    /\ chart.seriesSelection =
          [key \in {"Releases", "count()", "p50()"} |-> key = "count()"]

(***************************************************************************)
(* Claims about GlobalSelectionHeader.                                     *)
(***************************************************************************)
\* C8: handleUpdateProjects commits the pending project selection (an empty list
\* when there is none) together with an empty environment list, and afterwards
\* the pending projects and the pending environments are both null, even if
\* environment changes were pending.
C8_UpdateProjectsClearsPending ==
    last.op = "handleUpdateProjects" =>
        /\ last.events[1].op = "updateProjects"
        /\ last.events[1].arg.projects =
              (IF last.pre.projects.null THEN <<>> ELSE last.pre.projects.items)
        /\ last.events[1].arg.options.environments = <<>>
        /\ \A n \in 2..Len(last.events) : last.events[n].op # "updateProjects"
        /\ header.projects.null
        /\ header.environments.null

\* projects are updated with no pending projects while environments are pending
C8_Witness ==
    /\ last.op = "handleUpdateProjects"
    /\ last.pre.projects.null
    /\ last.pre.environments = List(<<"prod", "dev">>)
    /\ header.environments.null

(***************************************************************************)
(* Claims about ShareIssue.                                                *)
(***************************************************************************)
\* C10: opening the dropdown calls onToggle exactly when the issue is not shared
\* and no share request is loading; otherwise it calls nothing.
C10_OpenTogglesWhenIdle ==
    last.op = "handleOpen" =>
        IF ~share.props.loading /\ share.props.isShared \in {Undefined, JsFalse}
        THEN last.events = <<Event("onToggle", Undefined)>>
        ELSE last.events = <<>>

\* the dropdown is opened while the issue is not shared and a request is loading
C10_Witness ==
    /\ last.op = "handleOpen"
    /\ share.props.loading
    /\ share.props.isShared = JsFalse
    /\ last.events = <<>>

====
